---- MODULE Spec2Model ----
(***************************************************************************)
(* Model of the live session client of gemini-2-live-JR:                   *)
(* GeminiWebsocketClient (js/ws/client.js) on top of the browser's         *)
(* WebSocket transport.  One client object, the transports it creates,    *)
(* the promises its connect() hands out, and the frames it transmits.      *)
(***************************************************************************)
EXTENDS Integers, Sequences, FiniteSets, TLC

\* ---------------------------------------------------------------- bounds
MaxTransports == 3   \* transports the session may create in one run
MaxSent       == 1   \* frames the callers' send_* calls may add to one transport
MaxInflight   == 1   \* inbound frames whose decoding is in progress
MaxParts      == 3   \* parts in the modelTurn of one inbound frame
MaxPending    == 2   \* inbound frames in decoding at once, on one connection
MaxRegs       == 2   \* registrations in the listener array of one event name
MaxTimers     == 2   \* 500 ms timers of CameraManager.initialize() not yet fired
MaxCalls      == 2   \* ScreenManager.initialize() calls in progress at once
MaxLeaked     == 2   \* live capture streams the ScreenManager has lost track of

Transports == 1..MaxTransports
Null       == 0      \* the null reference of this.ws / this.connectionPromise

\* WebSocket.readyState, plus NONE for a transport not yet constructed
ReadyStates == {"NONE", "CONNECTING", "OPEN", "CLOSING", "CLOSED"}

\* close codes and reasons the close event may carry
CloseCodes   == {1000, 1006, 1008, 4001, 4003}
CloseReasons == {"", "going away", "Invalid API Key", "TOKEN expired",
                 "unauthorized"}

VARIABLES
    rs,                 \* rs[t]: readyState of transport t
    created,            \* number of transports constructed so far
    ws,                 \* this.ws
    isConnecting,       \* this.isConnecting
    connectionPromise,  \* this.connectionPromise (the attempt it belongs to)
    promise,            \* promise[t]: state of the promise made by attempt t
    isSetupComplete,    \* this._isSetupComplete
    urlOk,              \* whether this.url parses as a URL
    closeDue,           \* transport whose close event follows its error event:
                        \* both fire in one task, so only the continuations
                        \* of the callers and of receive() run in between
    inflight,           \* blobs handed to receive(), awaiting blobToJSON:
                        \* the transport each arrived on, in arrival order
    wire,               \* frames handed to this.ws by ws.send since it opened
    hsOnWs,             \* a setupComplete that arrived on this.ws was processed
    cancelled,          \* pending attempts that disconnect() has been called on
    events,             \* this._events: the listeners registered per event name
    cam,                \* the CameraManager: its fields, the facingMode kept in
                        \* localStorage, the timers initialize() has armed
    scr,                \* the ScreenManager: its fields, its initialize()
                        \* calls in progress, the capture streams granted
    ui,                 \* dom/events.js: isCameraActive and the camera button
    last                \* the operation that ran last and what it did

vars == <<rs, created, ws, isConnecting, connectionPromise, promise,
          isSetupComplete, urlOk, closeDue, inflight, wire, hsOnWs,
          cancelled, events, cam, scr, ui, last>>

\* the camera, the screen capture and the buttons: nothing of the session
\* client touches them
deviceVars == <<cam, scr, ui>>

\* ------------------------------------------------------- inbound frames
PartNone == [text |-> FALSE, inline |-> "none", data |-> "none", tag |-> 0]
NoContent == [present |-> FALSE, interrupted |-> FALSE, turnComplete |-> FALSE,
              modelTurn |-> FALSE, parts |-> <<>>]
FrameBase == [json |-> TRUE, toolCall |-> FALSE, setupComplete |-> FALSE,
              toolCallCancellation |-> FALSE, sc |-> NoContent]
FrameSetup     == [FrameBase EXCEPT !.setupComplete = TRUE]
FrameTool      == [FrameBase EXCEPT !.toolCall = TRUE]
FrameToolSetup == [FrameBase EXCEPT !.toolCall = TRUE, !.setupComplete = TRUE]
FrameCancel    == [FrameBase EXCEPT !.toolCallCancellation = TRUE]
FrameTurn      == [FrameBase EXCEPT !.sc = [NoContent EXCEPT !.present = TRUE,
                                                   !.turnComplete = TRUE]]
FrameInterrupt == [FrameBase EXCEPT !.sc = [NoContent EXCEPT !.present = TRUE,
                                                   !.interrupted = TRUE]]
FrameUnmatched == FrameBase
FrameMalformed == [FrameBase EXCEPT !.json = FALSE]
\* a model turn: a text part, an audio part with a payload, another part
PartText  == [PartNone EXCEPT !.text = TRUE]
PartAudio == [PartNone EXCEPT !.inline = "audio", !.data = "ok"]
PartImage == [PartNone EXCEPT !.inline = "image", !.data = "ok"]
FrameContent   == [FrameBase EXCEPT !.sc = [NoContent EXCEPT !.present = TRUE,
                      !.modelTurn = TRUE,
                      !.parts = <<PartText, PartAudio, PartImage>>]]
RouterFrames == {FrameSetup, FrameTool, FrameToolSetup, FrameCancel,
                 FrameTurn, FrameInterrupt, FrameUnmatched, FrameMalformed,
                 FrameContent}
\* the frames a server delivers in the session runs
InFrames == {FrameSetup, FrameToolSetup, FrameTurn, FrameMalformed}

\* the parts of a model turn: text, audio whose payload decodes, audio
\* without a payload, audio whose payload does not decode, anything else
PartAudioEmpty == [PartNone EXCEPT !.inline = "audio"]
PartAudioBad   == [PartNone EXCEPT !.inline = "audio", !.data = "bad"]
\* a second text and a second audio part, with other content than the first
PartText2  == [PartText EXCEPT !.tag = 1]
PartAudio2 == [PartAudio EXCEPT !.tag = 1]
PartKinds == {PartText, PartText2, PartAudio, PartAudio2, PartAudioEmpty,
              PartAudioBad, PartImage}

RECURSIVE PartListsOfLen(_)
PartListsOfLen(n) ==
    IF n = 0 THEN {<<>>}
    ELSE {Append(ps, p) : ps \in PartListsOfLen(n - 1), p \in PartKinds}
PartLists == UNION {PartListsOfLen(n) : n \in 0..MaxParts}

\* serverContent frames: any flags, with or without a modelTurn
ContentFrames ==
    {[FrameBase EXCEPT !.sc = [present |-> TRUE, interrupted |-> i,
                               turnComplete |-> tc, modelTurn |-> TRUE,
                               parts |-> ps]] :
        i \in BOOLEAN, tc \in BOOLEAN, ps \in PartLists}
    \cup
    {[FrameBase EXCEPT !.sc = [NoContent EXCEPT !.present = TRUE,
                               !.interrupted = i, !.turnComplete = tc]] :
        i \in BOOLEAN, tc \in BOOLEAN}
\* frames carrying several top-level keys at once
KeyedFrames ==
    {[FrameBase EXCEPT !.toolCall = t, !.setupComplete = s,
                       !.toolCallCancellation = c, !.sc = x] :
        t \in BOOLEAN, s \in BOOLEAN, c \in BOOLEAN,
        x \in {NoContent, FrameTurn.sc, FrameInterrupt.sc, FrameContent.sc}}
\* everything receive() may be handed
ServerFrames == RouterFrames \cup ContentFrames \cup KeyedFrames

\* an event handed to EventEmitter.emit, with the parts it carries
Ev(name) == [name |-> name, parts |-> <<>>]
EvParts(name, ps) == [name |-> name, parts |-> ps]

\* ------------------------------------------------------------ event emitter
\* event names listeners are registered under, and the listener functions
\* callers pass to on(): two that return, one that throws, one that calls
\* removeListener on itself for the event being dispatched
EventNames == {"text", "audio"}
Listeners  == {"f", "g", "thrower", "remover"}
Throws(l)  == l = "thrower"
Removes(l) == l = "remover"

\* this._events[event]: undefined until the first on(), then an array
NoListeners == [present |-> FALSE, ls |-> <<>>]

\* ------------------------------------------------------------ devices
\* new CameraManager(config) on a mobile or a desktop browser, with no
\* facingMode configured and none kept in localStorage
CameraNew(mobile) ==
    [mobile |-> mobile, isInitialized |-> FALSE, stream |-> "null",
     videoElement |-> FALSE, canvas |-> FALSE, closeBtn |-> FALSE,
     facingMode |-> "undefined", stored |-> "none", timers |-> 0]

\* new ScreenManager(config)
\* new ScreenManager(config).  listener: the 'ended' listener is on the
\* track of this.stream; media, play: initialize() calls waiting for
\* getDisplayMedia, for videoElement.play(); leaked, leakedHeard: live
\* streams the manager no longer refers to, without and with the listener
ScreenNew ==
    [isInitialized |-> FALSE, stream |-> "null", videoElement |-> FALSE,
     canvas |-> FALSE, preview |-> FALSE, listener |-> FALSE,
     media |-> 0, play |-> 0, leaked |-> 0, leakedHeard |-> 0]

\* the module state of dom/events.js and the camera button of the page
UiNew ==
    [isCameraActive |-> FALSE, cameraBtnActive |-> FALSE,
     cameraBtnDisabled |-> FALSE]

\* ------------------------------------------------------------ operation log
\* what a call of the async function connect() returns to its caller
NotCalled    == [kind |-> "none", of |-> Null]
FailFast     == [kind |-> "rejected", of |-> Null]   \* Promise.reject(...)
Returned(p)  == [kind |-> IF p = Null THEN "null" ELSE "promise", of |-> p]

\* op: the operation or handler; res: how it ended; emitted: the events it
\* published, in order; closed: the transports it called close() on;
\* ret: what connect() returned; again: disconnect() directly after
\* disconnect()
\* arg: the decoded frame receive() routed, or the code and reason of the
\* close event the close handler classified
NoArg == [kind |-> "none"]
DidConnect(res, emitted, ret) ==
    [op |-> "connect", res |-> res, emitted |-> emitted, closed |-> {},
     ret |-> ret, again |-> FALSE, arg |-> NoArg]
\* a connect() that got as far as reading the key from localStorage
DidConnectWith(res, emitted, ret, hasKey) ==
    [DidConnect(res, emitted, ret) EXCEPT
        !.arg = [kind |-> "key", key |-> hasKey]]
Did(op, res, emitted, closed) ==
    [op |-> op, res |-> res, emitted |-> emitted, closed |-> closed,
     ret |-> NotCalled, again |-> FALSE, arg |-> NoArg]
DidDisconnect(closed) ==
    [op |-> "disconnect", res |-> "ok", emitted |-> <<>>, closed |-> closed,
     ret |-> NotCalled, again |-> (last.op = "disconnect"), arg |-> NoArg]
DidReceive(res, emitted, f) ==
    [Did("receive", res, emitted, {}) EXCEPT !.arg = f]
DidClose(emitted, closed, c) ==
    [Did("close", "ok", emitted, closed) EXCEPT !.arg = c]

\* ------------------------------------------------------------- helpers
\* the id of the transport the next `new WebSocket(...)` constructs
NextTransport == created + 1

\* WebSocket.close(): starts the closing handshake of a transport that is
\* connecting or open, and does nothing on one that is closing or closed
CloseTransport(r, w) ==
    IF r[w] \in {"CONNECTING", "OPEN"} THEN [r EXCEPT ![w] = "CLOSING"] ELSE r

\* resolve() / reject() of attempt t: only a pending promise settles
Settle(p, t, how) ==
    IF p[t] = "pending" THEN [p EXCEPT ![t] = how] ELSE p

\* the checks of sendJSON, in the order the code makes them
SendJSONResultOneError(setupDone, w, r) ==
    IF ~setupDone THEN "dropped"
    ELSE IF w = Null \/ r[w] # "OPEN" THEN "TransportNotOpen"
    ELSE "sent"
SendJSONResultSwallow(setupDone, w, r) ==
    IF ~setupDone \/ w = Null \/ r[w] # "OPEN" THEN "dropped"
    ELSE "sent"
SendJSONResult(setupDone, w, r) ==
    IF ~setupDone THEN "dropped"
    ELSE IF w = Null THEN "TransportAbsent"
    ELSE IF r[w] # "OPEN" THEN "TransportNotOpen"
    ELSE "sent"

\* ws.send(JSON.stringify(json)) on the transport whose record is s
Transmit(s, frame) == Append(s, frame)

\* the fields disconnect() assigns when this.ws is set
DisconnectedWsKept(w) == w
DisconnectedWs(w) == Null
DisconnectedConnecting(c) == FALSE
DisconnectedPromise(p) == Null

\* the close handler's classification of a close event
\* /auth|token|key/i.test(reason), over CloseReasons
ReasonMatchesAuth(reason) ==
    reason \in {"Invalid API Key", "TOKEN expired", "unauthorized"}
AuthFailureNo1008(code, reason) ==
    \/ code \in {4001, 4003}
    \/ (reason # "" /\ ReasonMatchesAuth(reason))
AuthFailure(code, reason) ==
    \/ code \in {4001, 4003, 1008}
    \/ (reason # "" /\ ReasonMatchesAuth(reason))

SessionInit ==
    /\ rs = [t \in Transports |-> "NONE"]
    /\ created = 0
    /\ ws = Null
    /\ isConnecting = FALSE
    /\ connectionPromise = Null
    /\ promise = [t \in Transports |-> "none"]
    /\ isSetupComplete = FALSE
    /\ urlOk \in BOOLEAN
    /\ closeDue = Null
    /\ inflight = <<>>
    /\ wire = <<>>
    /\ hsOnWs = FALSE
    /\ cancelled = {}
    /\ events = [n \in EventNames |-> NoListeners]
    /\ last = Did("new", "ok", <<>>, {})

Init ==
    /\ SessionInit
    /\ cam = CameraNew(FALSE)
    /\ scr = ScreenNew
    /\ ui = UiNew

\* ------------------------------------------------------------ connect()
\* the two early returns of connect(): an open transport, or an attempt
\* that is marked as in progress
ConnectReusesPromise ==
    \/ (ws # Null /\ rs[ws] = "OPEN")
    \/ isConnecting

\* the two setup errors of connect(): no key, or a URL that does not parse
FailsFastKeyOnly(hasKey) == ~hasKey
FailsFast(hasKey) == ~hasKey \/ ~urlOk

ConnectWith(hasKey) ==
    /\ IF ConnectReusesPromise
       THEN /\ last' = DidConnect("existing", <<>>, Returned(connectionPromise))
            /\ UNCHANGED <<rs, created, ws, isConnecting, connectionPromise,
                           promise, isSetupComplete, urlOk, events,
                           deviceVars, closeDue,
                           inflight, wire, hsOnWs, cancelled>>
       ELSE IF FailsFast(hasKey)
       THEN /\ last' = DidConnectWith(IF ~hasKey THEN "NoCredential"
                                      ELSE "InvalidAddress",
                                      <<Ev("error")>>, FailFast, hasKey)
            /\ UNCHANGED <<rs, created, ws, isConnecting, connectionPromise,
                           promise, isSetupComplete, urlOk, events,
                           deviceVars, closeDue,
                           inflight, wire, hsOnWs, cancelled>>
       ELSE /\ created < MaxTransports
            /\ created' = NextTransport
            /\ rs' = [rs EXCEPT ![NextTransport] = "CONNECTING"]
            /\ isConnecting' = TRUE
            /\ connectionPromise' = NextTransport
            /\ promise' = [promise EXCEPT ![NextTransport] = "pending"]
            /\ last' = DidConnectWith("created", <<>>,
                                      Returned(NextTransport), hasKey)
            /\ UNCHANGED <<ws, isSetupComplete, urlOk, events, deviceVars,
                           closeDue, inflight,
                           wire, hsOnWs, cancelled>>

\* connect(), with or without a key in localStorage
Connect == \E hasKey \in BOOLEAN : ConnectWith(hasKey)

\* --------------------------------------------------------- disconnect()
\* the guard of disconnect(): if (this.ws)
HasTransport == ws # Null

DiscRs(r)    == IF HasTransport THEN CloseTransport(r, ws) ELSE r
DiscWs       == IF HasTransport THEN DisconnectedWs(ws) ELSE ws
DiscConnecting == IF HasTransport THEN DisconnectedConnecting(isConnecting)
                  ELSE isConnecting
DiscPromise  == IF HasTransport THEN DisconnectedPromise(connectionPromise)
                ELSE connectionPromise
DiscClosed   == IF HasTransport THEN {ws} ELSE {}
\* the records kept about this.ws end when the reference is dropped
DiscWire     == IF DiscWs = ws THEN wire ELSE <<>>
DiscHsOnWs   == IF DiscWs = ws THEN hsOnWs ELSE FALSE

Disconnect ==
    /\ rs' = DiscRs(rs)
    /\ ws' = DiscWs
    /\ isConnecting' = DiscConnecting
    /\ connectionPromise' = DiscPromise
    /\ wire' = DiscWire
    /\ hsOnWs' = DiscHsOnWs
    /\ cancelled' = cancelled \cup {t \in Transports : promise[t] = "pending"}
    /\ last' = DidDisconnect(DiscClosed)
    /\ UNCHANGED <<created, promise, isSetupComplete, urlOk, events,
                   deviceVars, closeDue,
                   inflight>>

\* ------------------------------------------------- transport callbacks
\* ws 'open': this.ws = ws; isConnecting = false; sendJSON({setup}); resolve()
OpenEvent(t) ==
    /\ closeDue = Null
    /\ rs[t] = "CONNECTING"
    /\ rs' = [rs EXCEPT ![t] = "OPEN"]
    /\ ws' = t
    /\ isConnecting' = FALSE
    /\ LET r == SendJSONResult(isSetupComplete, t, rs') IN
        /\ wire' = IF r = "sent" THEN Transmit(<<>>, "setup") ELSE <<>>
        /\ last' = Did("open", r, <<>>, {})
    /\ hsOnWs' = FALSE
    /\ promise' = Settle(promise, t, "fulfilled")
    /\ cancelled' = cancelled \ {t}
    /\ UNCHANGED <<created, connectionPromise, isSetupComplete, urlOk,
                   events, deviceVars,
                   closeDue, inflight>>

\* ws 'error': the connection failed; the browser has set readyState to
\* CLOSED and fires close right after.  disconnect(ws); emit; reject()
ErrorEvent(t) ==
    /\ closeDue = Null
    /\ rs[t] \in {"CONNECTING", "OPEN", "CLOSING"}
    /\ LET failed == [rs EXCEPT ![t] = "CLOSED"] IN rs' = DiscRs(failed)
    /\ ws' = DiscWs
    /\ isConnecting' = DiscConnecting
    /\ connectionPromise' = DiscPromise
    /\ wire' = DiscWire
    /\ hsOnWs' = DiscHsOnWs
    /\ promise' = Settle(promise, t, "rejected")
    /\ closeDue' = t
    /\ cancelled' = cancelled \ {t}
    /\ last' = Did("error", "ok", <<Ev("error")>>, DiscClosed)
    /\ UNCHANGED <<created, isSetupComplete, urlOk, events, deviceVars,
                   inflight>>

\* the closing handshake of an open transport starts (the server sent its
\* Close frame): readyState becomes CLOSING, no handler of the client runs
ClosingStarted(t) ==
    /\ closeDue = Null
    /\ rs[t] = "OPEN"
    /\ rs' = [rs EXCEPT ![t] = "CLOSING"]
    /\ last' = Did("closing", "ok", <<>>, {})
    /\ UNCHANGED <<created, ws, isConnecting, connectionPromise, promise,
                   isSetupComplete, urlOk, events, deviceVars, closeDue,
                   inflight,
                   wire, hsOnWs,
                   cancelled>>

\* the events the close handler publishes for a close code and reason
CloseEmitsBoth(code, reason) ==
    (IF AuthFailure(code, reason)
     THEN <<Ev("auth_failed"), Ev("error")>> ELSE <<>>)
    \o <<Ev("disconnected")>>
CloseEmits(code, reason) ==
    IF AuthFailure(code, reason)
    THEN <<Ev("auth_failed"), Ev("error")>>
    ELSE <<Ev("disconnected")>>

\* the close events a transport may deliver, and those of the session runs
CloseEvents   == [code : CloseCodes, reason : CloseReasons]
SessionCloses == {[code |-> 1000, reason |-> ""], [code |-> 1008, reason |-> ""]}

\* ws 'close': disconnect(ws); classify and emit; if (this.isConnecting)
\* { isConnecting = false; reject() }
CloseEventOf(t, closes) ==
    /\ \/ closeDue = t
       \/ (closeDue = Null /\ rs[t] \in {"OPEN", "CLOSING"})
    /\ LET shut == [rs EXCEPT ![t] = "CLOSED"] IN rs' = DiscRs(shut)
    /\ ws' = DiscWs
    /\ isConnecting' = FALSE
    /\ connectionPromise' = DiscPromise
    /\ wire' = DiscWire
    /\ hsOnWs' = DiscHsOnWs
    /\ promise' = IF DiscConnecting THEN Settle(promise, t, "rejected")
                  ELSE promise
    /\ closeDue' = Null
    /\ cancelled' = cancelled \ {t}
    /\ \E c \in closes :
        last' = DidClose(CloseEmits(c.code, c.reason), DiscClosed, c)
    /\ UNCHANGED <<created, isSetupComplete, urlOk, events, deviceVars,
                   inflight>>

CloseEvent(t) == CloseEventOf(t, SessionCloses)

\* ------------------------------------------------------ inbound frames
\* ws 'message': a Blob is handed to receive(), which first awaits
\* blobToJSON; anything else is logged and dropped
\* event.data instanceof Blob
ForwardsAnyPayload(isBlob) == TRUE
ForwardsToReceive(isBlob) == isBlob

\* a message event with the kind of payload it carried
DidMessage(res, isBlob) ==
    [Did("message", res, <<>>, {}) EXCEPT !.arg = [kind |-> "payload",
                                                   blob |-> isBlob]]

\* pending: how many receive() calls may be awaiting blobToJSON at once
MessageEventUpTo(t, pending) ==
    /\ closeDue = Null
    /\ rs[t] = "OPEN"
    /\ \E isBlob \in BOOLEAN :
        IF ForwardsToReceive(isBlob)
        THEN /\ Len(inflight) < pending
             /\ inflight' = Append(inflight, t)
             /\ last' = DidMessage("blob", isBlob)
        ELSE /\ inflight' = inflight
             /\ last' = DidMessage("nonblob", isBlob)
    /\ UNCHANGED <<rs, created, ws, isConnecting, connectionPromise, promise,
                   isSetupComplete, urlOk, events, deviceVars, closeDue,
                   wire, hsOnWs,
                   cancelled>>

MessageEvent(t) == MessageEventUpTo(t, MaxInflight)

IsTextPart(p)  == p.text
IsAudioPart(p) == p.inline = "audio"
NotAudioPart(p) == ~IsAudioPart(p)

RECURSIVE TextEvents(_)
TextEvents(ps) ==
    IF ps = <<>> THEN <<>>
    ELSE <<EvParts("text", <<Head(ps)>>)>> \o TextEvents(Tail(ps))

\* base64ToArrayBuffer(b64): whether the payload decodes; it throws if not
Decodes(data) == data = "ok"

\* base64s.forEach: a payload that is absent is skipped, one that does not
\* decode makes base64ToArrayBuffer throw, which ends receive()
RECURSIVE AudioEvents(_)
AudioEvents(ps) ==
    IF ps = <<>> THEN [evs |-> <<>>, threw |-> FALSE]
    ELSE IF Head(ps).data = "none" THEN AudioEvents(Tail(ps))
    ELSE IF ~Decodes(Head(ps).data) THEN [evs |-> <<>>, threw |-> TRUE]
    ELSE LET rest == AudioEvents(Tail(ps)) IN
         [evs |-> <<EvParts("audio", <<Head(ps)>>)>> \o rest.evs,
          threw |-> rest.threw]

ModelTurnEvents(parts) ==
    LET textParts  == SelectSeq(parts, IsTextPart)
        audioParts == SelectSeq(parts, IsAudioPart)
        otherParts == SelectSeq(parts, NotAudioPart)
        audio      == AudioEvents(audioParts)
    IN  TextEvents(textParts) \o audio.evs \o
        (IF ~audio.threw /\ otherParts # <<>>
         THEN <<EvParts("content", otherParts)>> ELSE <<>>)

ModelTurnThrows(parts) == AudioEvents(SelectSeq(parts, IsAudioPart)).threw

\* the `return` that follows emit('interrupted')
InterruptedFallsThrough(sc) == FALSE
InterruptedReturns(sc) == sc.interrupted

\* the serverContent branch of receive()
ServerContentEvents(sc) ==
    (IF sc.interrupted THEN <<Ev("interrupted")>> ELSE <<>>) \o
    (IF InterruptedReturns(sc) THEN <<>>
     ELSE (IF sc.turnComplete THEN <<Ev("turn_complete")>> ELSE <<>>) \o
          (IF sc.modelTurn THEN ModelTurnEvents(sc.parts) ELSE <<>>))

\* the events receive() publishes for a decoded frame, branch by branch
RouterEventsSetupFirst(f) ==
    IF f.setupComplete THEN <<Ev("setupComplete")>>
    ELSE IF f.toolCall THEN <<Ev("tool_call")>>
    ELSE IF f.toolCallCancellation THEN <<Ev("tool_call_cancellation")>>
    ELSE IF f.sc.present THEN ServerContentEvents(f.sc)
    ELSE <<>>
RouterEvents(f) ==
    IF f.toolCall THEN <<Ev("tool_call")>>
    ELSE IF f.setupComplete THEN <<Ev("setupComplete")>>
    ELSE IF f.toolCallCancellation THEN <<Ev("tool_call_cancellation")>>
    ELSE IF f.sc.present THEN ServerContentEvents(f.sc)
    ELSE <<>>

\* whether receive() reaches the serverContent branch for a decoded frame
IsServerContent(f) ==
    /\ f.json /\ ~f.toolCall /\ ~f.setupComplete /\ ~f.toolCallCancellation
    /\ f.sc.present

\* how receive() ends for a decoded frame: normally, or with the error
\* base64ToArrayBuffer threw
RouterResult(f) ==
    IF /\ IsServerContent(f) /\ ~InterruptedReturns(f.sc) /\ f.sc.modelTurn
       /\ ModelTurnThrows(f.sc.parts)
    THEN "DecodeError" ELSE "ok"

\* whether receive() takes the setupComplete branch for a decoded frame
SetsSetupComplete(f) == ~f.toolCall /\ f.setupComplete

\* this._isSetupComplete once receive() has routed a decoded frame: the
\* setupComplete branch assigns true, no branch assigns anything else
SetupFlagAssigned(flag, f) == SetsSetupComplete(f)
SetupFlagAfter(flag, f) == flag \/ SetsSetupComplete(f)

\* receive() resumes once blobToJSON has settled: f is what the oldest
\* blob in flight, which arrived on transport Head(inflight), decodes to.
\* When blobToJSON fails ("undecodable") the await throws; receive() has no
\* handler for it, so the promise it returned is rejected.
ReceiveFrame(f) ==
    /\ inflight # <<>>
    /\ inflight' = Tail(inflight)
    /\ IF ~f.json
       THEN /\ last' = DidReceive("undecodable", <<>>, f)
            /\ UNCHANGED <<isSetupComplete, hsOnWs>>
       ELSE /\ isSetupComplete' = SetupFlagAfter(isSetupComplete, f)
            /\ hsOnWs' = (hsOnWs \/ (SetsSetupComplete(f)
                                      /\ Head(inflight) = ws))
            /\ last' = DidReceive(RouterResult(f), RouterEvents(f), f)
    /\ UNCHANGED <<rs, created, ws, isConnecting, connectionPromise, promise,
                   urlOk, events, deviceVars, closeDue, wire, cancelled>>

Receive == \E f \in InFrames : ReceiveFrame(f)

\* ------------------------------------------------------- outbound sends
\* the first statement of each send_* method: if (!this._isSetupComplete)
AudioBlocked        == ~isSetupComplete
ImageBlocked        == ~isSetupComplete
TextBlocked         == ~isSetupComplete
ToolResponseBlockedNever == FALSE
ToolResponseBlocked == ~isSetupComplete

\* the number of frames the callers' send_* calls have added to this.ws
IsCallerFrame(frame) == frame # "setup"
CallerFrames == Len(SelectSeq(wire, IsCallerFrame))

\* a send_* call with what it was passed (the tool response, if any)
DidSend(op, res, a) == [Did(op, res, <<>>, {}) EXCEPT !.arg = a]

\* the rest of a send_* method once an envelope is built: await sendJSON
SendEnvelopeOf(op, frame, a) ==
    LET r == SendJSONResult(isSetupComplete, ws, rs) IN
    IF r = "sent"
    THEN /\ CallerFrames < MaxSent
         /\ wire' = Transmit(wire, frame)
         /\ last' = DidSend(op, "sent", a)
    ELSE /\ wire' = wire
         /\ last' = DidSend(op, r, a)

SendEnvelope(op, frame) == SendEnvelopeOf(op, frame, NoArg)

SendUnchanged ==
    UNCHANGED <<rs, created, ws, isConnecting, connectionPromise, promise,
                isSetupComplete, urlOk, events, deviceVars, closeDue,
                inflight, hsOnWs,
                cancelled>>

Dropped(op) ==
    /\ wire' = wire
    /\ last' = Did(op, "dropped", <<>>, {})

SendAudio ==
    /\ IF AudioBlocked THEN Dropped("sendAudio")
       ELSE SendEnvelope("sendAudio", "audio")
    /\ SendUnchanged

SendImage ==
    /\ IF ImageBlocked THEN Dropped("sendImage")
       ELSE SendEnvelope("sendImage", "image")
    /\ SendUnchanged

SendText ==
    /\ IF TextBlocked THEN Dropped("sendText")
       ELSE SendEnvelope("sendText", "text")
    /\ SendUnchanged

\* the tool responses a caller may pass: with or without id, output, error
ToolResponses == [id : BOOLEAN, output : BOOLEAN, error : BOOLEAN]
\* those of the session runs: an error, an output, neither
SessionToolResponses ==
    {[id |-> TRUE, output |-> FALSE, error |-> TRUE],
     [id |-> TRUE, output |-> TRUE, error |-> FALSE],
     [id |-> TRUE, output |-> FALSE, error |-> FALSE]}

\* what sendToolResponse makes of a tool response once past its first check
ToolEnvelopeOutputFirst(tr) ==
    IF ~tr.id THEN "InvalidToolResponse"
    ELSE IF tr.output THEN "toolOutput"
    ELSE IF ~tr.error THEN "InvalidToolResponse"
    ELSE "toolError"
ToolEnvelopeNoOutputCheck(tr) ==
    IF ~tr.id THEN "InvalidToolResponse"
    ELSE IF tr.error THEN "toolError"
    ELSE "toolOutput"
ToolEnvelope(tr) ==
    IF ~tr.id THEN "InvalidToolResponse"
    ELSE IF tr.error THEN "toolError"
    ELSE IF ~tr.output THEN "InvalidToolResponse"
    ELSE "toolOutput"

SendToolResponseOf(trs) ==
    /\ \E tr \in trs :
        IF ToolResponseBlocked
        THEN /\ wire' = wire
             /\ last' = DidSend("sendToolResponse", "dropped", tr)
        ELSE LET env == ToolEnvelope(tr) IN
             IF env = "InvalidToolResponse"
             THEN /\ wire' = wire
                  /\ last' = DidSend("sendToolResponse", env, tr)
             ELSE SendEnvelopeOf("sendToolResponse", env, tr)
    /\ SendUnchanged

SendToolResponse == SendToolResponseOf(SessionToolResponses)

SendOps == {"sendAudio", "sendImage", "sendText", "sendToolResponse"}

\* --------------------------------------------------------- specification
Next ==
    \/ Connect
    \/ Disconnect
    \/ \E t \in Transports : OpenEvent(t)
    \/ \E t \in Transports : ErrorEvent(t)
    \/ \E t \in Transports : CloseEvent(t)
    \/ \E t \in Transports : MessageEvent(t)
    \/ Receive
    \/ SendAudio
    \/ SendImage
    \/ SendText
    \/ SendToolResponse

Spec == Init /\ [][Next]_vars

\* a freshly constructed client whose URL parses, and a caller with a key
InitLive == Init /\ urlOk

LiveConnect == ConnectWith(TRUE)

\* ---------------------------------------------------- the frame router
\* The first connection of a client with a key and a well-formed URL, on
\* which the transport delivers any frame and any close event: what
\* receive() and the close handler publish for each of them.  The server
\* sends a frame once the one before it has been routed.
RouterConnect == created = 0 /\ LiveConnect

RouterMessage(t) == inflight = <<>> /\ MessageEvent(t)

RouterReceive == \E f \in ServerFrames : ReceiveFrame(f)

RouterClose(t) == CloseEventOf(t, CloseEvents)

NextRouter ==
    \/ RouterConnect
    \/ \E t \in Transports : OpenEvent(t)
    \/ \E t \in Transports : RouterMessage(t)
    \/ \E t \in Transports : RouterClose(t)
    \/ RouterReceive

SpecRouter == InitLive /\ [][NextRouter]_vars

\* ------------------------------------------------------ one connection
\* The first connection of a client with a key and a well-formed URL, in
\* full: frames may arrive while earlier ones are still being decoded, the
\* server may start the closing handshake, and the caller may pass any tool
\* response.
ConnMessage(t) == MessageEventUpTo(t, MaxPending)

ConnSendToolResponse == SendToolResponseOf(ToolResponses)

NextConn ==
    \/ RouterConnect
    \/ Disconnect
    \/ \E t \in Transports : OpenEvent(t)
    \/ \E t \in Transports : ErrorEvent(t)
    \/ \E t \in Transports : ClosingStarted(t)
    \/ \E t \in Transports : CloseEvent(t)
    \/ \E t \in Transports : ConnMessage(t)
    \/ Receive
    \/ SendAudio
    \/ SendImage
    \/ SendText
    \/ ConnSendToolResponse

SpecConn == InitLive /\ [][NextConn]_vars

\* ------------------------------------------------- the answering server
\* The runs of a freshly constructed client with a key and a well-formed
\* URL, against a server that answers a setup frame it has received with
\* SetupComplete and never closes or fails the connection.  The caller may
\* connect, send and disconnect; a transport the client has closed
\* completes its closing handshake.
LiveClose(t) == rs[t] = "CLOSING" /\ CloseEvent(t)

\* the oldest blob in flight arrived on this.ws after the setup frame went out
SetupAnswerable ==
    /\ inflight # <<>>
    /\ Head(inflight) = ws
    /\ wire # <<>>
    /\ Head(wire) = "setup"

\* what the server's blobs decode to: SetupComplete only as an answer
LiveFrames ==
    (RouterFrames \ {FrameSetup, FrameToolSetup}) \cup
    (IF SetupAnswerable THEN {FrameSetup} ELSE {})

LiveReceive == \E f \in LiveFrames : ReceiveFrame(f)

\* the server's answer to a setup frame arrives on the transport it came on
AnswerArrives ==
    /\ ws # Null
    /\ wire # <<>>
    /\ Head(wire) = "setup"
    /\ ~hsOnWs
    /\ MessageEvent(ws)
    /\ inflight' = Append(inflight, ws)

AnswerDecoded == SetupAnswerable /\ ReceiveFrame(FrameSetup)

NextLive ==
    \/ LiveConnect
    \/ Disconnect
    \/ \E t \in Transports : OpenEvent(t)
    \/ \E t \in Transports : LiveClose(t)
    \/ \E t \in Transports : MessageEvent(t)
    \/ LiveReceive
    \/ SendAudio
    \/ SendImage
    \/ SendText
    \/ SendToolResponse

SpecLive ==
    /\ InitLive
    /\ [][NextLive]_vars
    /\ WF_vars(\E t \in Transports : OpenEvent(t))
    /\ WF_vars(LiveReceive)
    /\ SF_vars(AnswerArrives)
    /\ SF_vars(AnswerDecoded)

\* ---------------------------------------------------------- EventEmitter
\* the fields of the client that the emitter's own methods leave alone
clientVars == <<rs, created, ws, isConnecting, connectionPromise, promise,
                isSetupComplete, urlOk, closeDue, inflight, wire, hsOnWs,
                cancelled>>

DidOn(op, n, l) ==
    [Did(op, "ok", <<>>, {}) EXCEPT !.arg = [kind |-> op, name |-> n, l |-> l]]

\* on(event, listener): create the array if there is none, push
On(n, l) ==
    /\ Len(events[n].ls) < MaxRegs
    /\ events' = [events EXCEPT ![n] = [present |-> TRUE,
                                        ls |-> Append(@.ls, l)]]
    /\ last' = DidOn("on", n, l)
    /\ UNCHANGED clientVars
    /\ UNCHANGED deviceVars

\* filter(l => l !== listener): every registration of the listener goes
Without(ls, l) == SelectSeq(ls, LAMBDA x : x # l)

\* removeListener(event, listener)
RemoveListener(n, l) ==
    /\ events' = IF events[n].present
                 THEN [events EXCEPT ![n].ls = Without(@, l)]
                 ELSE events
    /\ last' = DidOn("removeListener", n, l)
    /\ UNCHANGED clientVars
    /\ UNCHANGED deviceVars

\* forEach over the array emit() found: the index of the first listener
\* that throws (0 if none does), and the listeners forEach gets to call
FirstThrow(ls) ==
    IF \E i \in 1..Len(ls) : Throws(ls[i])
    THEN CHOOSE i \in 1..Len(ls) :
            Throws(ls[i]) /\ \A j \in 1..(i - 1) : ~Throws(ls[j])
    ELSE 0
Invoked(ls) ==
    IF FirstThrow(ls) = 0 THEN ls ELSE SubSeq(ls, 1, FirstThrow(ls))

\* one call forEach makes: the listener, and the name it was found under
Call(n, l) == [on |-> n, l |-> l]
CallsOf(n, ls) == [i \in 1..Len(ls) |-> Call(n, ls[i])]

\* the array forEach goes on iterating once the listener it called has run
\* removeListener: filter built a new array for this._events[event], the
\* one forEach holds is as it was
IteratedSpliced(arr, l) == Without(arr, l)
IteratedAfterRemoval(arr, l) == arr

\* forEach from index i on: arr is the array forEach holds, cur the array
\* under this._events[event], calls the listeners called so far; a throw
\* leaves forEach
RECURSIVE Dispatch(_, _, _, _)
Dispatch(arr, i, cur, calls) ==
    IF i > Len(arr)
    THEN [calls |-> calls, cur |-> cur, threw |-> FALSE]
    ELSE LET l == arr[i] IN
         IF Throws(l)
         THEN [calls |-> Append(calls, l), cur |-> cur, threw |-> TRUE]
         ELSE IF Removes(l)
         THEN Dispatch(IteratedAfterRemoval(arr, l), i + 1, Without(cur, l),
                       Append(calls, l))
         ELSE Dispatch(arr, i + 1, cur, Append(calls, l))

DidEmit(res, n, calls) ==
    [Did("emit", res, <<>>, {}) EXCEPT
        !.arg = [kind |-> "emit", name |-> n, calls |-> calls]]

\* emit(event, ...args)
Emit(n) ==
    /\ IF ~events[n].present
       THEN /\ events' = events
            /\ last' = DidEmit("false", n, <<>>)
       ELSE LET d == Dispatch(events[n].ls, 1, events[n].ls, <<>>) IN
            /\ events' = [events EXCEPT ![n].ls = d.cur]
            /\ last' = DidEmit(IF d.threw THEN "threw" ELSE "true", n,
                               CallsOf(n, d.calls))
    /\ UNCHANGED clientVars
    /\ UNCHANGED deviceVars

NextEmitter ==
    \/ \E n \in EventNames, l \in Listeners : On(n, l)
    \/ \E n \in EventNames, l \in Listeners : RemoveListener(n, l)
    \/ \E n \in EventNames : Emit(n)

SpecEmitter == InitLive /\ [][NextEmitter]_vars

\* --------------------------------------------------------- CameraManager
\* what the getUserMedia attempts of initialize() come to: the first
\* constraints are granted, or (on mobile) the alternate facing mode, or the
\* minimal constraints, or none; the permission is denied, which
\* attemptConstraints rethrows; or the preview setup throws after a grant
InitOutcomes ==
    {"first", "alternate", "minimal", "none", "denied", "setupError"}
\* what switchCamera()'s getUserMedia and play() come to
SwitchOutcomes == {"ok", "noStream", "noPlay"}

\* stream.getTracks().forEach(track => track.stop())
TracksStopped(stream) == IF stream = "live" THEN "stopped" ELSE stream

\* localStorage.getItem('facingMode') || the default of the platform
StoredFacingMode(c) ==
    IF c.stored # "none" THEN c.stored
    ELSE IF c.mobile THEN "user" ELSE "undefined"

\* dispose(): the manager and the camera button after it
CamDisposed(c, u) ==
    [cam |-> [c EXCEPT !.stream = "null", !.videoElement = FALSE,
                       !.canvas = FALSE, !.closeBtn = FALSE,
                       !.isInitialized = FALSE,
                       !.facingMode = StoredFacingMode(c)],
     ui  |-> [u EXCEPT !.cameraBtnDisabled = FALSE,
                       !.cameraBtnActive = FALSE]]

\* the facing mode initialize() asks for first, and the other one
CurrentFacingMode(c) ==
    IF c.facingMode # "undefined" THEN c.facingMode
    ELSE IF c.mobile THEN "user" ELSE "undefined"
OtherFacingMode(mode) == IF mode = "user" THEN "environment" ELSE "user"

\* attemptConstraints on success: the facing mode asked for is stored
Granted(c, mode) ==
    IF mode = "undefined" THEN c
    ELSE [c EXCEPT !.facingMode = mode, !.stored = mode]

\* the facing mode the constraints granted under an outcome carried
GrantedMode(c, o) ==
    IF ~c.mobile \/ o = "minimal" THEN "undefined"
    ELSE IF o = "alternate" THEN OtherFacingMode(CurrentFacingMode(c))
    ELSE CurrentFacingMode(c)

\* the camera button once initialize() has given up
CamBtnDisabled(u) ==
    [u EXCEPT !.cameraBtnDisabled = TRUE, !.cameraBtnActive = FALSE]

\* initialize() up to the point its promise settles: res is "already",
\* "rejected" (the promise rejects), "noStream", "setupError" or "ok".  On
\* "ok" the 500 ms timer that will build the canvas and set isInitialized
\* is armed and the promise resolves
CamInitialized(c, u, o) ==
    IF c.isInitialized THEN [cam |-> c, ui |-> u, res |-> "already"]
    ELSE IF o = "denied" THEN [cam |-> c, ui |-> u, res |-> "rejected"]
    ELSE IF o = "none"
    THEN [cam |-> [c EXCEPT !.isInitialized = FALSE],
          ui |-> CamBtnDisabled(u), res |-> "noStream"]
    ELSE LET g == Granted(c, GrantedMode(c, o)) IN
         IF o = "setupError"
         THEN [cam |-> CamDisposed(g, u).cam,
               ui |-> CamBtnDisabled(CamDisposed(g, u).ui),
               res |-> "setupError"]
         ELSE [cam |-> [g EXCEPT !.stream = "live", !.videoElement = TRUE,
                                 !.closeBtn = TRUE, !.timers = @ + 1],
               ui |-> u, res |-> "ok"]

\* the outcomes getUserMedia can have on the platform
OutcomesOf(c) ==
    IF c.mobile THEN InitOutcomes ELSE InitOutcomes \ {"alternate"}

CamInitialize(o) ==
    /\ o \in OutcomesOf(cam)
    /\ cam.isInitialized \/ cam.timers < MaxTimers
    /\ LET r == CamInitialized(cam, ui, o) IN
        /\ cam' = r.cam
        /\ ui' = r.ui
        /\ last' = Did("cam.initialize", r.res, <<>>, {})
    /\ UNCHANGED <<clientVars, events, scr>>

\* the callback of the 500 ms timer: it reads this.videoElement.videoWidth,
\* which throws once dispose() has cleared the element
CamTimerFires ==
    /\ cam.timers > 0
    /\ IF cam.videoElement
       THEN /\ cam' = [cam EXCEPT !.timers = @ - 1, !.canvas = TRUE,
                                  !.isInitialized = TRUE]
            /\ last' = Did("cam.timer", "ok", <<>>, {})
       ELSE /\ cam' = [cam EXCEPT !.timers = @ - 1]
            /\ last' = Did("cam.timer", "TypeError", <<>>, {})
    /\ UNCHANGED <<clientVars, events, scr, ui>>

\* the catch of switchCamera(): config.facingMode =
\* localStorage.getItem('facingMode') || 'environment', read after the
\* toggled mode was stored
FacingModeAfterFailedSwitch(previous, stored) ==
    IF stored = "none" THEN "environment" ELSE stored

\* switchCamera()
CamSwitchCamera(o) ==
    /\ IF ~cam.isInitialized
       THEN /\ cam' = cam
            /\ last' = Did("cam.switchCamera", "notInitialized", <<>>, {})
       ELSE LET new == OtherFacingMode(cam.facingMode)
                toggled == [cam EXCEPT !.facingMode = new, !.stored = new,
                                       !.stream = TracksStopped(@)]
                back == FacingModeAfterFailedSwitch(cam.facingMode,
                                                    toggled.stored) IN
            /\ cam' = IF o = "ok"
                      THEN [toggled EXCEPT !.stream = "live"]
                      ELSE IF o = "noStream"
                      THEN [toggled EXCEPT !.facingMode = back]
                      ELSE [toggled EXCEPT !.stream = "live",
                                           !.facingMode = back]
            /\ last' = Did("cam.switchCamera", o, <<>>, {})
    /\ UNCHANGED <<clientVars, events, scr, ui>>

\* getDimensions() and capture(): their guards
CamGetDimensions ==
    /\ last' = Did("cam.getDimensions",
                   IF ~cam.isInitialized THEN "NotInitialized" ELSE "ok",
                   <<>>, {})
    /\ UNCHANGED <<clientVars, events, deviceVars>>

CamCapture ==
    /\ last' = Did("cam.capture",
                   IF ~cam.isInitialized \/ ~cam.canvas
                   THEN "NotInitialized" ELSE "ok", <<>>, {})
    /\ UNCHANGED <<clientVars, events, deviceVars>>

CamDispose ==
    /\ cam' = CamDisposed(cam, ui).cam
    /\ ui' = CamDisposed(cam, ui).ui
    /\ last' = Did("cam.dispose", "ok", <<>>, {})
    /\ UNCHANGED <<clientVars, events, scr>>

\* the click listener of the preview's close button: dispose(), then the
\* 'active' class is taken off the camera button
CloseButtonClick ==
    /\ cam.closeBtn
    /\ cam' = CamDisposed(cam, ui).cam
    /\ ui' = [CamDisposed(cam, ui).ui EXCEPT !.cameraBtnActive = FALSE]
    /\ last' = Did("cam.closeClick", "ok", <<>>, {})
    /\ UNCHANGED <<clientVars, events, scr>>

\* agent.startCameraCapture(): it initializes the camera manager and fails
\* when that fails; agent.stopCameraCapture(): it disposes of it
StartCameraCapture(c, u, o) == CamInitialized(c, u, o)
StopCameraCapture(c, u) == CamDisposed(c, u)

\* the click listener of the camera button; ready: ensureAgentReady(agent)
\* did not throw
CameraBtnClick(ready, o) ==
    /\ ~ui.cameraBtnDisabled
    /\ o \in OutcomesOf(cam)
    /\ (ready /\ ~ui.isCameraActive /\ ~cam.isInitialized) =>
            cam.timers < MaxTimers
    /\ IF ~ready
       THEN /\ cam' = cam
            /\ ui' = [ui EXCEPT !.cameraBtnActive = FALSE,
                                !.isCameraActive = FALSE]
            /\ last' = Did("ui.cameraClick", "notReady", <<>>, {})
       ELSE IF ~ui.isCameraActive
       THEN LET r == StartCameraCapture(cam, ui, o) IN
            /\ cam' = r.cam
            /\ ui' = IF r.res = "rejected"
                     THEN [r.ui EXCEPT !.cameraBtnActive = FALSE,
                                       !.isCameraActive = FALSE]
                     ELSE [r.ui EXCEPT !.cameraBtnActive = TRUE,
                                       !.isCameraActive = TRUE]
            /\ last' = Did("ui.cameraClick",
                           IF r.res = "rejected" THEN "failed"
                           ELSE "started", <<>>, {})
       ELSE LET r == StopCameraCapture(cam, ui) IN
            /\ cam' = r.cam
            /\ ui' = [r.ui EXCEPT !.cameraBtnActive = FALSE,
                                  !.isCameraActive = FALSE]
            /\ last' = Did("ui.cameraClick", "stopped", <<>>, {})
    /\ UNCHANGED <<clientVars, events, scr>>

InitCamera ==
    /\ SessionInit
    /\ urlOk
    /\ cam \in {CameraNew(m) : m \in BOOLEAN}
    /\ scr = ScreenNew
    /\ ui = UiNew

NextCamera ==
    \/ \E o \in InitOutcomes : CamInitialize(o)
    \/ CamTimerFires
    \/ \E o \in SwitchOutcomes : CamSwitchCamera(o)
    \/ CamGetDimensions
    \/ CamCapture
    \/ CamDispose
    \/ CloseButtonClick
    \/ \E ready \in BOOLEAN, o \in InitOutcomes : CameraBtnClick(ready, o)

SpecCamera == InitCamera /\ [][NextCamera]_vars

\* the click listener of the switch button, which _createSwitchButton adds
\* to the preview on mobile browsers
SwitchButtonClick(o) ==
    /\ cam.mobile
    /\ cam.closeBtn
    /\ CamSwitchCamera(o)

\* the page in a user's hands: the camera button, the buttons of the
\* preview and the timer, no call of the manager from elsewhere
NextClicks ==
    \/ \E ready \in BOOLEAN, o \in InitOutcomes : CameraBtnClick(ready, o)
    \/ CloseButtonClick
    \/ \E o \in SwitchOutcomes : SwitchButtonClick(o)
    \/ CamTimerFires

SpecClicks == InitCamera /\ [][NextClicks]_vars

\* --------------------------------------------------------- ScreenManager
\* dispose(): the tracks of this.stream are stopped, every field is reset
ScrDisposedKeepsCanvas(s) ==
    [s EXCEPT !.stream = "null", !.videoElement = FALSE,
              !.preview = FALSE, !.isInitialized = FALSE,
              !.listener = FALSE]
ScrDisposed(s) ==
    [s EXCEPT !.stream = "null", !.videoElement = FALSE, !.canvas = FALSE,
              !.preview = FALSE, !.isInitialized = FALSE,
              !.listener = FALSE]

\* initialize() up to its first await: the guard, then getDisplayMedia
ScrInitialize ==
    /\ IF scr.isInitialized
       THEN /\ scr' = scr
            /\ last' = Did("scr.initialize", "already", <<>>, {})
       ELSE /\ scr.media + scr.play < MaxCalls
            /\ scr' = [scr EXCEPT !.media = @ + 1]
            /\ last' = Did("scr.initialize", "requested", <<>>, {})
    /\ UNCHANGED <<clientVars, events, cam, ui>>

\* this.stream = <the stream granted>: a live stream it held before is
\* no longer referred to, and nothing stopped its tracks
Replaced(s) ==
    IF s.stream # "live" THEN s
    ELSE IF s.listener THEN [s EXCEPT !.leakedHeard = @ + 1]
    ELSE [s EXCEPT !.leaked = @ + 1]

\* getDisplayMedia settles for one call: rejected (the catch rethrows), or
\* granted, and initialize() goes on to its second await, play()
ScrMediaSettles(ok) ==
    /\ scr.media > 0
    /\ IF ~ok
       THEN /\ scr' = [scr EXCEPT !.media = @ - 1]
            /\ last' = Did("scr.media", "rejected", <<>>, {})
       ELSE /\ scr.stream = "live" => scr.leaked + scr.leakedHeard < MaxLeaked
            /\ scr' = [Replaced(scr) EXCEPT !.media = @ - 1, !.play = @ + 1,
                                            !.stream = "live",
                                            !.listener = FALSE,
                                            !.videoElement = TRUE,
                                            !.preview = TRUE]
            /\ last' = Did("scr.media", "granted", <<>>, {})
    /\ UNCHANGED <<clientVars, events, cam, ui>>

\* play() settles for one call: rejected, or resolved, and initialize()
\* reads this.videoElement (null after a dispose(): a TypeError), builds
\* the canvas, adds the 'ended' listener and sets isInitialized; every
\* failure leaves through the catch, which only rethrows
ScrPlaySettles(ok) ==
    /\ scr.play > 0
    /\ IF ok /\ scr.videoElement
       THEN /\ scr' = [scr EXCEPT !.play = @ - 1, !.canvas = TRUE,
                                  !.listener = TRUE, !.isInitialized = TRUE]
            /\ last' = Did("scr.play", "ok", <<>>, {})
       ELSE /\ scr' = [scr EXCEPT !.play = @ - 1]
            /\ last' = Did("scr.play", "rejected", <<>>, {})
    /\ UNCHANGED <<clientVars, events, cam, ui>>

\* getDimensions() and capture(): the guard, then this.canvas and this.ctx
ScrReads(s) ==
    IF ~s.isInitialized THEN "NotInitialized"
    ELSE IF s.canvas /\ s.videoElement THEN "ok" ELSE "TypeError"

ScrGetDimensions ==
    /\ last' = Did("scr.getDimensions", ScrReads(scr), <<>>, {})
    /\ UNCHANGED <<clientVars, events, deviceVars>>

ScrCapture ==
    /\ last' = Did("scr.capture", ScrReads(scr), <<>>, {})
    /\ UNCHANGED <<clientVars, events, deviceVars>>

ScrDispose ==
    /\ scr' = ScrDisposed(scr)
    /\ last' = Did("scr.dispose", "ok", <<>>, {})
    /\ UNCHANGED <<clientVars, events, cam, ui>>

\* the click listener of the preview's close button: dispose(), onStop()
ScrCloseClick ==
    /\ scr.preview
    /\ scr' = ScrDisposed(scr)
    /\ last' = Did("scr.closeClick", "ok", <<>>, {})
    /\ UNCHANGED <<clientVars, events, cam, ui>>

\* the user ends the sharing of this.stream in the browser: the track
\* fires 'ended', and the listener, if initialize() got to add it, disposes
ScrTrackEnded ==
    /\ scr.stream = "live"
    /\ IF scr.listener
       THEN /\ scr' = ScrDisposed(scr)
            /\ last' = Did("scr.ended", "ok", <<>>, {})
       ELSE /\ scr' = [scr EXCEPT !.stream = "ended"]
            /\ last' = Did("scr.ended", "unheard", <<>>, {})
    /\ UNCHANGED <<clientVars, events, cam, ui>>

\* the user ends the sharing of a stream the manager lost track of: its
\* listener, if it has one, disposes of what the manager holds now
ScrLeakedEnded ==
    /\ \/ /\ scr.leakedHeard > 0
          /\ scr' = ScrDisposed([scr EXCEPT !.leakedHeard = @ - 1])
          /\ last' = Did("scr.leakedEnded", "ok", <<>>, {})
       \/ /\ scr.leaked > 0
          /\ scr' = [scr EXCEPT !.leaked = @ - 1]
          /\ last' = Did("scr.leakedEnded", "unheard", <<>>, {})
    /\ UNCHANGED <<clientVars, events, cam, ui>>

NextScreen ==
    \/ ScrInitialize
    \/ \E ok \in BOOLEAN : ScrMediaSettles(ok)
    \/ \E ok \in BOOLEAN : ScrPlaySettles(ok)
    \/ ScrGetDimensions
    \/ ScrCapture
    \/ ScrDispose
    \/ ScrCloseClick
    \/ ScrTrackEnded
    \/ ScrLeakedEnded

SpecScreen == InitLive /\ [][NextScreen]_vars

\* ----------------------------------------------------------------- claims
IsSetupFrame(frame) == frame = "setup"
SetupCount == Len(SelectSeq(wire, IsSetupFrame))

\* the session is Ready: the handshake flag is set on an open transport,
\* so that sendJSON hands a frame to the transport
Ready == SendJSONResult(isSetupComplete, ws, rs) = "sent"

\* C1: once a transport has opened and is the session's transport, the
\* setup frame has been transmitted on it, exactly once, and it is the
\* first frame transmitted on it.
C1_SetupSentFirstOnce ==
    ws # Null => (wire # <<>> /\ Head(wire) = "setup" /\ SetupCount = 1)

\* C2: whenever the promise of the attempt that opened the session's
\* transport is fulfilled, a setupComplete received on that transport has
\* been processed.
C2_FulfilledOnlyAfterSetupComplete ==
    \A t \in Transports : (ws = t /\ promise[t] = "fulfilled") => hsOnWs

\* C3: with a key, a well-formed URL, a transport that opens, a server that
\* answers the setup frame and never closes, and a caller that does not
\* disconnect, connect() leads to the handshake flag being set and sends
\* reaching the transport.
C3_ConnectLeadsToReady ==
    ([](last.op # "disconnect")) => ((created > 0) ~> Ready)

\* C4: while no setupComplete frame has been processed, every send_* call
\* returns normally, as a no-op, and hands nothing to the transport.
C4_SendsBeforeSetupAreNoOps ==
    (last.op \in SendOps /\ ~isSetupComplete) => last.res = "dropped"

C4_Witness ==
    /\ last.op = "sendToolResponse"
    /\ last.res = "dropped"
    /\ ~isSetupComplete
    /\ ws # Null
    /\ rs[ws] = "OPEN"

\* C5: a send_* call transmits a frame only when the session's transport is
\* open and a setupComplete received on that transport has been processed.
C5_SendsOnlyWhenReady ==
    (last.op \in SendOps /\ last.res = "sent") =>
        (ws # Null /\ rs[ws] = "OPEN" /\ hsOnWs)

\* the attempts whose connect() is still pending: transport neither open
\* nor failed
PendingAttempts ==
    {t \in Transports : rs[t] = "CONNECTING" /\ promise[t] = "pending"}

\* C6: a connect() called while an attempt is pending creates no transport
\* and returns that attempt's promise, so every caller gets one outcome.
C6_ConcurrentConnectCollapses ==
    [][(last'.op = "connect" /\ PendingAttempts # {}) =>
        /\ created' = created
        /\ \A t \in PendingAttempts : last'.ret = Returned(t)]_vars

\* C7: at most one transport created by the session is connecting or open.
C7_AtMostOneLiveTransport ==
    Cardinality({t \in Transports : rs[t] \in {"CONNECTING", "OPEN"}}) <= 1

\* C8: an attempt that was pending when disconnect() was called is never
\* fulfilled and its transport never becomes the session's transport.
C8_DisconnectCancelsPendingConnect ==
    [][\A t \in cancelled : promise'[t] # "fulfilled" /\ ws' # t]_vars

\* C9: right after disconnect() the transport reference is null, the
\* connecting flag is false, the pending-connect promise is cleared and no
\* transport of the session is open.
C9_DisconnectLeavesClosed ==
    last.op = "disconnect" =>
        /\ ws = Null
        /\ ~isConnecting
        /\ connectionPromise = Null
        /\ \A t \in Transports : rs[t] # "OPEN"

\* C10: a disconnect() directly after a disconnect() does not raise, calls
\* close() on no transport, publishes no event and changes neither the
\* transports nor ws, isConnecting, connectionPromise or the handshake flag.
C10_DisconnectIdempotent ==
    [][(last.op = "disconnect" /\ last'.op = "disconnect") =>
        /\ last'.res = "ok"
        /\ last'.closed = {}
        /\ last'.emitted = <<>>
        /\ UNCHANGED <<rs, ws, isConnecting, connectionPromise,
                       isSetupComplete>>]_vars

C10_Witness ==
    /\ last.op = "disconnect"
    /\ last.again
    /\ ws = Null
    /\ \E t \in Transports : rs[t] = "CLOSING"

\* the names of the events an operation published, in order
Names(evs) == [i \in 1..Len(evs) |-> evs[i].name]
Emitted(name) == \E i \in 1..Len(last.emitted) : last.emitted[i].name = name
AuthCodes == {4001, 4003, 1008}

\* C11 (as stated): a close event with code 4001, 4003 or 1008 publishes
\* auth_failed and error and not disconnected; a close event with code 1000
\* publishes disconnected and not auth_failed.
C11_CloseCodesClassified ==
    last.op = "close" =>
        /\ last.arg.code \in AuthCodes =>
               /\ Emitted("auth_failed") /\ Emitted("error")
               /\ ~Emitted("disconnected")
        /\ last.arg.code = 1000 =>
               /\ Emitted("disconnected") /\ ~Emitted("auth_failed")

\* C11 (amended): a close event with code 4001, 4003 or 1008 publishes
\* auth_failed and error and not disconnected; a close event with code 1000
\* whose reason does not match auth/token/key publishes disconnected and not
\* auth_failed.
C11_CloseCodesClassifiedByReason ==
    last.op = "close" =>
        /\ last.arg.code \in AuthCodes =>
               /\ Emitted("auth_failed") /\ Emitted("error")
               /\ ~Emitted("disconnected")
        /\ (last.arg.code = 1000
                /\ last.arg.reason \in {"", "going away"}) =>
               /\ Emitted("disconnected") /\ ~Emitted("auth_failed")

C11_Witness ==
    /\ last.op = "close"
    /\ last.arg.code = 1000
    /\ last.arg.reason = "going away"
    /\ Names(last.emitted) = <<"disconnected">>

\* C12: every close event publishes exactly one classification: auth_failed,
\* directly followed by error, if and only if its code is 4001, 4003 or 1008
\* or its reason matches auth/token/key in any case; disconnected otherwise.
C12_ExactlyOneClassification ==
    last.op = "close" =>
        LET auth == \/ last.arg.code \in AuthCodes
                    \/ last.arg.reason \in {"Invalid API Key", "TOKEN expired",
                                             "unauthorized"}
        IN  /\ Emitted("auth_failed") <=> auth
            /\ Emitted("disconnected") <=> ~auth
            /\ auth => Names(last.emitted) = <<"auth_failed", "error">>
            /\ Len(SelectSeq(last.emitted,
                    LAMBDA e : e.name \in {"auth_failed", "disconnected"})) = 1

C12_Witness ==
    /\ last.op = "close"
    /\ last.arg.code = 1000
    /\ last.arg.reason = "TOKEN expired"
    /\ Names(last.emitted) = <<"auth_failed", "error">>

\* C13: once the error handler has run for a transport that had not opened,
\* the attempt's promise is rejected, an error event has been published and
\* the connecting flag is false, and a connect() called next starts a new
\* attempt instead of returning the failed one.
C13_ErrorBeforeOpenEndsConnecting ==
    [][/\ (last'.op = "error" /\ promise'[closeDue'] = "rejected") =>
            /\ \E i \in 1..Len(last'.emitted) : last'.emitted[i].name = "error"
            /\ ~isConnecting'
       /\ (last.op = "error" /\ promise[closeDue] = "rejected"
              /\ last'.op = "connect") =>
            last'.res # "existing"]_vars

\* C14: when a transport closes before a setupComplete received on it has
\* been processed, whether it had opened or not, the promise of its attempt
\* is rejected.
C14_CloseBeforeHandshakeRejects ==
    [][\A t \in Transports :
        (/\ rs[t] \in {"CONNECTING", "OPEN"}
         /\ rs'[t] = "CLOSED"
         /\ ~(ws = t /\ hsOnWs)
         /\ (rs[t] = "OPEN" => ws = t)) =>
            promise'[t] = "rejected"]_vars

\* receive() has routed a frame through its serverContent branch, and
\* through the modelTurn part of it
RoutedContent == last.op = "receive" /\ IsServerContent(last.arg)
RoutedTurn ==
    RoutedContent /\ ~last.arg.sc.interrupted /\ last.arg.sc.modelTurn
EventsNamed(name) == SelectSeq(last.emitted, LAMBDA e : e.name = name)
\* a part that is neither a text part nor an audio part
IsOtherPart(p) == ~p.text /\ p.inline # "audio"
\* an audio part with a payload that decodes
IsAudioChunk(p) == p.inline = "audio" /\ p.data = "ok"
\* one event of the given name for each part of ps, in order
RECURSIVE OneEach(_, _)
OneEach(name, ps) ==
    IF ps = <<>> THEN <<>>
    ELSE <<[name |-> name, parts |-> <<Head(ps)>>]>> \o OneEach(name, Tail(ps))

\* C15: for a frame with a modelTurn a content event is published if and
\* only if some part is neither text nor audio, there is one such event, and
\* it carries exactly those other parts in their original order.
C15_ContentCarriesOtherParts ==
    RoutedTurn =>
        LET others == SelectSeq(last.arg.sc.parts, IsOtherPart) IN
        EventsNamed("content") =
            (IF others = <<>> THEN <<>>
             ELSE <<[name |-> "content", parts |-> others]>>)

\* C16: for a modelTurn the text events are one per text part, in the order
\* of the parts, and the audio events are one per audio part with a payload
\* (one that decodes), in the order of the parts.
C16_OneEventPerTextAndAudioPart ==
    RoutedTurn =>
        /\ EventsNamed("text") =
              OneEach("text", SelectSeq(last.arg.sc.parts, LAMBDA p : p.text))
        /\ EventsNamed("audio") =
              OneEach("audio", SelectSeq(last.arg.sc.parts, IsAudioChunk))

\* C17: when the payload of an audio part of a modelTurn does not decode,
\* receive() still returns normally, publishes the audio events of the audio
\* parts whose payload decodes, and publishes the content event if the frame
\* has other parts.
C17_DecodeFailureSkipsOneChunk ==
    (RoutedTurn /\ \E i \in 1..Len(last.arg.sc.parts) :
                        last.arg.sc.parts[i] = PartAudioBad) =>
        /\ last.res = "ok"
        /\ EventsNamed("audio") =
              OneEach("audio", SelectSeq(last.arg.sc.parts, IsAudioChunk))
        /\ SelectSeq(last.arg.sc.parts, IsOtherPart) # <<>> =>
              EventsNamed("content") # <<>>

\* C18: a serverContent frame with interrupted set publishes the interrupted
\* event once and nothing else, whatever else the frame carries.
C18_InterruptedOnly ==
    (RoutedContent /\ last.arg.sc.interrupted) =>
        /\ Names(last.emitted) = <<"interrupted">>
        /\ last.res = "ok"

C18_Witness ==
    /\ RoutedContent
    /\ last.arg.sc.interrupted
    /\ last.arg.sc.turnComplete
    /\ last.arg.sc.modelTurn
    /\ last.arg.sc.parts = <<PartText, PartAudio, PartImage>>
    /\ Names(last.emitted) = <<"interrupted">>

\* C19: a serverContent frame that is not interrupted and has turnComplete
\* and a modelTurn publishes turn_complete once, as its first event, and
\* after it the events of its parts: text for its text parts, audio for its
\* audio chunks, content for its other parts.
C19_TurnCompleteBeforeContent ==
    (RoutedTurn /\ last.arg.sc.turnComplete) =>
        LET parts == last.arg.sc.parts IN
        /\ last.emitted # <<>>
        /\ Head(last.emitted).name = "turn_complete"
        /\ \A i \in 2..Len(last.emitted) :
              last.emitted[i].name \in {"text", "audio", "content"}
        /\ SelectSeq(parts, LAMBDA p : p.text) # <<>> =>
              EventsNamed("text") # <<>>
        /\ SelectSeq(parts, IsAudioChunk) # <<>> => EventsNamed("audio") # <<>>
        /\ SelectSeq(parts, IsOtherPart) # <<>> => EventsNamed("content") # <<>>

\* C20: once a setupComplete frame received on the session's transport has
\* been processed, a further setupComplete frame received on that transport
\* publishes no setupComplete event.
C20_SetupCompleteHonoredOnce ==
    [][(/\ hsOnWs
        /\ inflight # <<>>
        /\ Head(inflight) = ws
        /\ inflight' = Tail(inflight)
        /\ last'.op = "receive") =>
            \A i \in 1..Len(last'.emitted) :
                last'.emitted[i].name # "setupComplete"]_vars

\* C21: once a setupComplete frame received on the session's transport has
\* been processed, the handshake flag is true in every later state of that
\* connection, whatever frames are routed and whatever sends are issued.
C21_SetupFlagStaysTrue ==
    /\ [](hsOnWs => isSetupComplete)
    /\ [][isSetupComplete => isSetupComplete']_vars

C21_Witness ==
    /\ hsOnWs
    /\ isSetupComplete
    /\ last.op = "receive"
    /\ last.arg = FrameTurn

\* C22: inbound frames are processed one at a time: receive() begins for a
\* frame only when no receive() begun for an earlier frame is still in
\* progress, so that the events of the earlier frame all come first.
C22_OneFrameAtATime == Len(inflight) <= 1

\* C23: a message event whose payload is not a Blob publishes no event,
\* hands nothing to receive() and leaves the handshake flag, the transport
\* reference, the connecting flag and the transports as they were.
C23_NonBlobDiscarded ==
    [][(last'.op = "message" /\ ~last'.arg.blob) =>
        /\ last'.emitted = <<>>
        /\ UNCHANGED <<inflight, isSetupComplete, ws, isConnecting,
                       connectionPromise, rs>>]_vars

C23_Witness ==
    /\ last.op = "message"
    /\ ~last.arg.blob
    /\ last.res = "nonblob"
    /\ ws # Null
    /\ rs[ws] = "OPEN"

\* C24: a blob that does not decode is caught inside receive(), which
\* returns normally, publishes no event and leaves the session state and
\* the transport as they were.
C24_MalformedFrameIsolated ==
    [][(last'.op = "receive" /\ ~last'.arg.json) =>
        /\ last'.res = "ok"
        /\ last'.emitted = <<>>
        /\ UNCHANGED <<isSetupComplete, ws, isConnecting, connectionPromise,
                       rs>>]_vars

\* a tool response sendToolResponse rejects: no id, or neither output nor
\* error
InvalidToolResponse(tr) == ~tr.id \/ (~tr.output /\ ~tr.error)

\* C25: with the handshake flag set and the transport open, sendToolResponse
\* with an id and an error transmits one envelope whose response is the
\* error; with an id, an output and no error, one whose response is the
\* output; with an id and neither it raises and transmits nothing.
C25_ToolResponseEnvelopes ==
    [][(/\ isSetupComplete /\ ws # Null /\ rs[ws] = "OPEN"
        /\ last'.op = "sendToolResponse"
        /\ last'.arg.id) =>
          /\ last'.arg.error =>
                /\ last'.res = "sent"
                /\ wire' = Append(wire, "toolError")
          /\ (~last'.arg.error /\ last'.arg.output) =>
                /\ last'.res = "sent"
                /\ wire' = Append(wire, "toolOutput")
          /\ (~last'.arg.error /\ ~last'.arg.output) =>
                /\ last'.res = "InvalidToolResponse"
                /\ wire' = wire]_vars

C25_Witness ==
    /\ last.op = "sendToolResponse"
    /\ last.arg = [id |-> TRUE, output |-> TRUE, error |-> TRUE]
    /\ last.res = "sent"
    /\ wire # <<>>
    /\ wire[Len(wire)] = "toolError"

\* C26 (as stated): sendToolResponse with a tool response that has no id, or
\* neither output nor error, raises the validation error whatever the state
\* of the handshake.
C26_ValidationRaisedAlways ==
    (last.op = "sendToolResponse" /\ InvalidToolResponse(last.arg)) =>
        last.res = "InvalidToolResponse"

\* C26 (amended): such a call raises the validation error once a
\* setupComplete has been processed, whatever the state of the transport;
\* before that it is dropped as a no-op like every other send.
C26_ValidationRaisedAfterSetup ==
    (last.op = "sendToolResponse" /\ InvalidToolResponse(last.arg)) =>
        last.res = (IF isSetupComplete THEN "InvalidToolResponse"
                    ELSE "dropped")

C26_Witness ==
    /\ last.op = "sendToolResponse"
    /\ last.arg = [id |-> TRUE, output |-> FALSE, error |-> FALSE]
    /\ ~isSetupComplete
    /\ last.res = "dropped"
    /\ ws # Null
    /\ rs[ws] = "OPEN"

\* the send that a step has just made got as far as sendJSON: it is not a
\* sendToolResponse that its own validation stopped
ReachesSendJSON(l) ==
    /\ l.op \in SendOps
    /\ ~(l.op = "sendToolResponse" /\ InvalidToolResponse(l.arg))

\* the two outcomes of a send that finds no open transport
SendFailsByTransport(l) ==
    /\ ws = Null => l.res = "TransportAbsent"
    /\ (ws # Null /\ rs[ws] # "OPEN") => l.res = "TransportNotOpen"
    /\ (ws = Null \/ rs[ws] # "OPEN") => wire' = wire

\* C27 (as stated): a send issued while the transport reference is absent,
\* whether the client never connected or the reference was cleared, fails
\* with the transport-absent error; one issued while a transport is present
\* but not open fails with the transport-not-open error; nothing is
\* transmitted.
C27_SendWithoutTransportFails ==
    [][ReachesSendJSON(last') => SendFailsByTransport(last')]_vars

\* C27 (amended): the same, for sends issued once a setupComplete has been
\* processed; before that the send is dropped without an error.
C27_SendWithoutTransportFailsAfterSetup ==
    [][ReachesSendJSON(last') =>
          IF isSetupComplete THEN SendFailsByTransport(last')
          ELSE last'.res = "dropped" /\ wire' = wire]_vars

C27_Witness ==
    /\ last.op = "sendText"
    /\ last.res = "TransportNotOpen"
    /\ isSetupComplete
    /\ ws # Null
    /\ rs[ws] = "CLOSING"

\* C28: a send that cannot be transmitted raises its error to the caller and
\* changes nothing else: the transport reference, the connecting flag, the
\* pending-connect promise and the handshake flag are as before, no
\* transport is closed and no event is published.
C28_FailedSendRaisedOnly ==
    [][(/\ isSetupComplete
        /\ (ws = Null \/ rs[ws] # "OPEN")
        /\ ReachesSendJSON(last')) =>
          /\ last'.res \in {"TransportAbsent", "TransportNotOpen"}
          /\ last'.emitted = <<>>
          /\ last'.closed = {}
          /\ UNCHANGED <<ws, isConnecting, connectionPromise, promise,
                         isSetupComplete, rs, wire>>]_vars

C28_Witness ==
    /\ last.op = "sendToolResponse"
    /\ last.arg = [id |-> TRUE, output |-> TRUE, error |-> FALSE]
    /\ last.res = "TransportAbsent"
    /\ isSetupComplete
    /\ ws = Null
    /\ connectionPromise = Null

\* C29: a connect() that finds no key in localStorage, or whose URL does not
\* parse, returns a rejected promise and publishes one error event without
\* creating a transport; the transport reference, the connecting flag and
\* the pending-connect promise are as before, so a later connect() is not
\* answered from an attempt that never started.
C29_SetupErrorFailsFast ==
    [][(/\ last'.op = "connect"
        /\ last'.arg.kind = "key"
        /\ (~last'.arg.key \/ ~urlOk)) =>
          /\ last'.ret = FailFast
          /\ last'.emitted = <<Ev("error")>>
          /\ UNCHANGED <<created, rs, ws, isConnecting, connectionPromise,
                         promise>>
          /\ ~isConnecting'
          /\ ~(ws' # Null /\ rs'[ws'] = "OPEN")]_vars

C29_Witness ==
    /\ last.op = "connect"
    /\ last.res = "NoCredential"
    /\ last.ret = FailFast
    /\ created > 0
    /\ ws = Null
    /\ connectionPromise = Null

\* C30: emit(event, data) invokes every listener registered for that event
\* name when it is called, once per registration and in registration order,
\* and no listener registered under another name.
C30_EmitInvokesEveryListener ==
    [][last'.op = "emit" =>
          last'.arg.calls = CallsOf(last'.arg.name,
                                    events[last'.arg.name].ls)]_vars

\* C31: if a listener throws during emit, every listener registered after
\* it for the same event is still invoked for that publication.
C31_ListenersAfterThrowerInvoked ==
    [][(last'.op = "emit" /\ FirstThrow(events[last'.arg.name].ls) # 0) =>
          LET n  == last'.arg.name
              ls == events[n].ls IN
          \A i \in (FirstThrow(ls) + 1)..Len(ls) :
              \E j \in 1..Len(last'.arg.calls) :
                  last'.arg.calls[j] = Call(n, ls[i])]_vars

\* the listeners registered under a name
Registered(ev, n) == {ev[n].ls[i] : i \in 1..Len(ev[n].ls)}

\* C32: removeListener leaves no registration of the listener under the
\* event, and an emit invokes only listeners registered when it is called,
\* so a removed listener is not invoked by a later emit; a listener that
\* removes itself while an emit is dispatching is gone for the next emit,
\* and the dispatch in progress calls the listeners it would have called
\* without the removal, in the same order.
C32_RemovalTakesEffectNextEmit ==
    [][/\ last'.op = "removeListener" =>
            /\ last'.arg.l \notin Registered(events', last'.arg.name)
            /\ Registered(events', last'.arg.name) =
                    Registered(events, last'.arg.name) \ {last'.arg.l}
       /\ last'.op = "emit" =>
            LET n  == last'.arg.name
                ls == events[n].ls IN
            /\ \A j \in 1..Len(last'.arg.calls) :
                    last'.arg.calls[j].l \in Registered(events, n)
            /\ last'.arg.calls = CallsOf(n, Invoked(ls))
            /\ \A l \in Listeners :
                    (Removes(l) /\ \E j \in 1..Len(last'.arg.calls) :
                                      last'.arg.calls[j].l = l) =>
                        /\ l \notin Registered(events', n)
                        /\ events'[n].ls = Without(ls, l)]_vars

C32_Witness ==
    /\ last.op = "emit"
    /\ last.res = "true"
    /\ last.arg.calls = CallsOf(last.arg.name, <<"remover", "f">>)
    /\ events[last.arg.name].ls = <<"f">>

\* the transport of the session, or else of the attempt connect() is
\* waiting for
CurrentTransport ==
    IF ws # Null THEN ws
    ELSE IF isConnecting THEN connectionPromise
    ELSE Null

\* C33: a close or error event of a transport the session has replaced
\* leaves the current one alone: it does not close it, does not clear the
\* reference to it, does not reset the connecting flag of the new attempt
\* and does not settle or clear the new pending-connect promise.
C33_StaleEventsLeaveCurrentAlone ==
    [][\A t \in Transports :
          (/\ last'.op \in {"close", "error"}
           /\ rs[t] # "CLOSED" /\ rs'[t] = "CLOSED"
           /\ CurrentTransport # Null
           /\ t < CurrentTransport) =>
              /\ rs'[CurrentTransport] = rs[CurrentTransport]
              /\ ws' = ws
              /\ isConnecting' = isConnecting
              /\ connectionPromise' = connectionPromise
              /\ promise'[CurrentTransport] = promise[CurrentTransport]]_vars

\* the events the serverContent branch of receive() publishes
ContentEventNames ==
    {"interrupted", "turn_complete", "text", "audio", "content"}

\* C34: receive() routes a decoded frame to one branch, toolCall before
\* setupComplete before toolCallCancellation before serverContent: a frame
\* with toolCall publishes tool_call and nothing else whatever other keys
\* it carries, and leaves the handshake flag as it was; a frame without
\* toolCall but with setupComplete publishes only setupComplete; and so on
\* down to serverContent.
C34_OneBranchByPriority ==
    /\ [](( last.op = "receive" /\ last.arg.json) =>
            LET f == last.arg
                names == Names(last.emitted) IN
            /\ f.toolCall => names = <<"tool_call">>
            /\ (~f.toolCall /\ f.setupComplete) => names = <<"setupComplete">>
            /\ (~f.toolCall /\ ~f.setupComplete /\ f.toolCallCancellation) =>
                    names = <<"tool_call_cancellation">>
            /\ (~f.toolCall /\ ~f.setupComplete /\ ~f.toolCallCancellation) =>
                    \A i \in 1..Len(names) : names[i] \in ContentEventNames)
    /\ [][(last'.op = "receive" /\ last'.arg.json /\ last'.arg.toolCall) =>
              isSetupComplete' = isSetupComplete]_vars

C34_Witness ==
    /\ last.op = "receive"
    /\ last.arg = [FrameBase EXCEPT !.toolCall = TRUE, !.setupComplete = TRUE,
                                    !.toolCallCancellation = TRUE,
                                    !.sc = FrameContent.sc]
    /\ last.emitted = <<Ev("tool_call")>>
    /\ ~isSetupComplete

\* C35: when switchCamera() does not obtain the new stream, config.facingMode
\* is again the facing mode in effect before the call, and so is the
\* facingMode kept in localStorage.
C35_FailedSwitchRevertsFacingMode ==
    [][(last'.op = "cam.switchCamera" /\ last'.res = "noStream") =>
          /\ cam'.facingMode = cam.facingMode
          /\ cam'.stored = cam.stored]_vars

\* C36: when initialize() resolves after a stream was acquired and set up
\* without error, isInitialized is already true, so that getDimensions()
\* and capture() called next do not fail as not initialized; and
\* isInitialized becomes true only for a video element that an initialize()
\* since the last dispose() has created.
C36_InitializedWhenInitializeResolves ==
    /\ []((last.op = "cam.initialize" /\ last.res = "ok") =>
            cam.isInitialized)
    /\ [][(/\ cam.isInitialized
           /\ last'.op \in {"cam.getDimensions", "cam.capture"}) =>
              last'.res = "ok"]_vars
    /\ [][(~cam.isInitialized /\ cam'.isInitialized) =>
              cam.videoElement]_vars

\* C39: after any clicks on the camera button and on the close button of
\* the camera preview, isCameraActive is true exactly when the camera button
\* carries the 'active' class, so that the click on the camera button that
\* follows a preview close starts the camera and does not stop it.
C39_CameraFlagMatchesButton ==
    /\ [](ui.isCameraActive <=> ui.cameraBtnActive)
    /\ [][(last.op = "cam.closeClick" /\ last'.op = "ui.cameraClick") =>
              last'.res # "stopped"]_vars

\* the capture streams with live tracks
LiveStreams ==
    (IF scr.stream = "live" THEN 1 ELSE 0) + scr.leaked + scr.leakedHeard

\* C37: while the ScreenManager is not initialized and no initialize() is
\* in progress, no capture stream is live: an initialize() that fails after
\* getDisplayMedia succeeded stops the stream's tracks and clears the
\* reference, so that a retry never leaves two live streams.
C37_NoLiveStreamWhenIdle ==
    /\ [](( ~scr.isInitialized /\ scr.media = 0 /\ scr.play = 0) =>
            (scr.stream = "null" /\ LiveStreams = 0))
    /\ [](LiveStreams <= 1)

\* C38: an initialized ScreenManager has its stream, video element, canvas
\* and context; getDimensions() and capture() raise the not-initialized
\* error exactly when isInitialized is false; dispose(), from the API, the
\* close button or the track's ended event, resets every field, and a
\* second dispose() changes nothing; initialize() on an initialized manager
\* requests nothing.
C38_ScreenStateConsistent ==
    /\ [](scr.isInitialized =>
            (scr.stream # "null" /\ scr.videoElement /\ scr.canvas))
    /\ [](last.op \in {"scr.getDimensions", "scr.capture"} =>
            /\ last.res \in {"ok", "NotInitialized"}
            /\ (last.res = "NotInitialized") <=> ~scr.isInitialized)
    /\ []((last.op \in {"scr.dispose", "scr.closeClick", "scr.ended"}
                /\ last.res = "ok") =>
            /\ scr.stream = "null" /\ ~scr.videoElement /\ ~scr.canvas
            /\ ~scr.preview /\ ~scr.isInitialized)
    /\ [][(last.op = "scr.dispose" /\ last'.op = "scr.dispose") =>
              scr' = scr]_vars
    /\ [][(scr.isInitialized /\ last'.op = "scr.initialize") =>
              (last'.res = "already" /\ scr' = scr)]_vars

C38_Witness ==
    /\ last.op = "scr.initialize"
    /\ last.res = "already"
    /\ scr.isInitialized
    /\ scr.stream = "live"
    /\ scr.leakedHeard > 0

====
